---- MODULE Spec2Model ----
(***************************************************************************)
(* Verification model of the trading-algo backtest core:                   *)
(*   BacktestDriver        src/brokers/integrations/backtest/driver.py     *)
(*   MasterRiskController  src/brokers/risk.py                             *)
(*   BacktestEngine.run    src/backtest_engine.py                          *)
(*   BaseStrategy          src/strategy/base.py                            *)
(* Python floats are modelled as exact rationals [n, d] in lowest terms.   *)
(***************************************************************************)
EXTENDS Integers, Sequences, FiniteSets, TLC

VARIABLES
    driver,      \* the BacktestDriver instance (its attributes as a record)
    last_call,   \* the last driver operation: its name, request and response
    risk,        \* the MasterRiskController instance
    clock,       \* the value time.time() returns
    backend,     \* the requests the wrapped backend received and when, in order
    risk_call,   \* the last MasterRiskController operation and what it returned
    ticks,       \* how many times the clock has advanced
    engine,      \* the BacktestEngine instance and the position of run() in its loops
    strategies,  \* the BaseStrategy instances, their loop tasks and pending stop calls
    strategy_call, \* the last step taken on a strategy and the status it found
    provider,    \* the CSVDataProvider tables and the last chain lookup
    pricing      \* the CSVDataProvider price tables and the last price lookup

vars == <<driver, last_call, risk, clock, backend, risk_call, ticks, engine,
          strategies, strategy_call, provider, pricing>>

driverVars == <<driver, last_call>>
riskVars == <<risk, clock, backend, risk_call, ticks>>
strategyVars == <<strategies, strategy_call>>

----------------------------------------------------------------------------
(* Bounds of the model.                                                    *)

MaxOrders == 3            \* accepted orders per run of the driver
MaxOrdersPerMinute == 2   \* stands for max_orders_per_minute (risk.py sets 30)
MaxForwarded == 3         \* orders the risk gate forwards per run
MaxTicks == 2             \* times the clock advances per run of the risk gate
MaxTradesPerDay == 2      \* stands for max_trades_per_day (default 5)
MaxOrdersPerTick == 2     \* orders one strategy callback places
MaxRows == 3              \* rows of the historical stream
MaxStarts == 2            \* loop tasks created per strategy
MaxChainDate == 3         \* dates the option tables and the lookups range over
MaxStops == 1             \* stop calls per strategy that find the running flag set

(* Program constants.                                                      *)

InitialCapital == 100000   \* BacktestDriver.__init__ default
LotSize == 50              \* quantity per lot in the margin model
MarginPerLot == 100000     \* margin charged per short lot
MaxGlobalDrawdown == 5000  \* MasterRiskController.max_global_drawdown
VelocityWindow == 60       \* seconds a timestamp stays in the velocity window

Symbols == {"NIFTY", "NIFTY26FEB20000CE"}
Prices == {1, 2}            \* the marks the model sets
Quantities == {25, 50}      \* order quantities: half a lot and one lot
None == "None"               \* None where a string is expected
NoTime == 0                  \* current_time is None
NoOrderId == <<>>            \* order_id is None

----------------------------------------------------------------------------
(* Exact arithmetic standing for Python float arithmetic.                   *)

Abs(x) == IF x < 0 THEN -x ELSE x

RECURSIVE GCD(_, _)
GCD(a, b) == IF b = 0 THEN a ELSE GCD(b, a % b)

Rat(n, d) ==
    LET g == GCD(Abs(n), Abs(d))
        s == IF d < 0 THEN -1 ELSE 1
    IN  [n |-> s * (n \div g), d |-> s * (d \div g)]

R(i) == [n |-> i, d |-> 1]
RAdd(a, b) == Rat(a.n * b.d + b.n * a.d, a.d * b.d)
RNeg(a) == [n |-> -a.n, d |-> a.d]
RSub(a, b) == RAdd(a, RNeg(b))
RMul(a, b) == Rat(a.n * b.n, a.d * b.d)
RDiv(a, b) == Rat(a.n * b.d, a.d * b.n)
RLt(a, b) == a.n * b.d < b.n * a.d
RAbs(a) == [n |-> Abs(a.n), d |-> a.d]

RECURSIVE RSum(_, _)
RSum(f, S) ==
    IF S = {} THEN R(0)
    ELSE LET x == CHOOSE y \in S : TRUE
         IN  RAdd(f[x], RSum(f, S \ {x}))

(* dict[key] = value and del dict[key].                                     *)
Put(f, k, v) == [x \in (DOMAIN f) \cup {k} |-> IF x = k THEN v ELSE f[x]]
Del(f, k) == [x \in (DOMAIN f) \ {k} |-> f[x]]
EmptyDict == <<>>

----------------------------------------------------------------------------
(* BacktestDriver                                                           *)

(* Position.pnl when the constructor call does not pass it.                 *)
PositionDefaultPnl == 0

BacktestDriverInit(initial_capital) ==
    [initial_capital |-> R(initial_capital),
     current_cash    |-> R(initial_capital),
     positions       |-> EmptyDict,
     orders          |-> <<>>,
     trades          |-> <<>>,
     current_time    |-> NoTime,
     current_prices  |-> EmptyDict,
     csv_provider    |-> EmptyDict]

(* set_price that records the mark and leaves the P&L alone.                *)
SetPriceMarkOnly(d, symbol, price) ==
    [d EXCEPT !.current_prices = Put(@, symbol, price)]

(* set_price: the mark, then the P&L of an open position on the symbol.     *)
SetPrice(d, symbol, price) ==
    LET marked == [d EXCEPT !.current_prices = Put(@, symbol, price)]
    IN  IF symbol \in DOMAIN d.positions
        THEN LET pos == d.positions[symbol]
                 long == RMul(RSub(price, pos.average_price), R(pos.quantity_total))
                 short == RMul(RSub(pos.average_price, price), R(Abs(pos.quantity_total)))
                 pnl == IF pos.quantity_total < 0 THEN short ELSE long
             IN  [marked EXCEPT !.positions[symbol].pnl = pnl]
        ELSE marked

UsedMarginOf(pos) ==
    IF pos.quantity_total < 0
    THEN RMul(RAbs(Rat(pos.quantity_total, LotSize)), R(MarginPerLot))
    ELSE R(0)

EquityOf(pos) ==
    RAdd(pos.pnl, RMul(R(pos.quantity_total), pos.average_price))

GetFunds(d) ==
    LET syms == DOMAIN d.positions
        equity == RAdd(d.current_cash,
                       RSum([s \in syms |-> EquityOf(d.positions[s])], syms))
        used_margin == RSum([s \in syms |-> UsedMarginOf(d.positions[s])], syms)
    IN  [equity |-> equity, available_cash |-> d.current_cash,
         used_margin |-> used_margin, net |-> equity]

(* get_quote: the mark, else what the data provider answers for the symbol  *)
(* at the current time (0 stands for 0.0 and for None). csv_provider is the *)
(* provider's answer per symbol, and the empty function when there is none. *)
GetQuote(d, symbol) ==
    LET mark == IF symbol \in DOMAIN d.current_prices
                THEN d.current_prices[symbol] ELSE R(0)
        price == IF mark = R(0) /\ d.csv_provider # EmptyDict /\ d.current_time # NoTime
                 THEN R(d.csv_provider[symbol])
                 ELSE mark
    IN  [symbol |-> symbol, last_price |-> price, timestamp |-> d.current_time]

NewPosition(symbol, qty, price) ==
    [symbol |-> symbol, quantity_total |-> qty, quantity_available |-> qty,
     average_price |-> price, pnl |-> R(PositionDefaultPnl)]

(* _execute_trade, BUY branch.                                              *)
ExecuteBuy(d, symbol, qty, price, trade_value) ==
    LET paid == [d EXCEPT !.current_cash = RSub(@, trade_value)]
    IN  IF symbol \in DOMAIN d.positions
        THEN LET pos == d.positions[symbol]
                 new_qty == pos.quantity_total + qty
             IN  IF new_qty = 0
                 THEN [paid EXCEPT !.positions = Del(@, symbol)]
                 ELSE [paid EXCEPT !.positions[symbol] =
                         [pos EXCEPT
                            !.average_price =
                                RDiv(RAdd(RMul(pos.average_price, R(pos.quantity_total)),
                                          trade_value),
                                     R(new_qty)),
                            !.quantity_total = new_qty,
                            !.quantity_available = new_qty]]
        ELSE [paid EXCEPT !.positions = Put(@, symbol, NewPosition(symbol, qty, price))]

(* ExecuteSell without the deletion of a flattened position.                *)
ExecuteSellKeepsFlat(d, symbol, qty, price, trade_value) ==
    LET paid == [d EXCEPT !.current_cash = RAdd(@, trade_value)]
    IN  IF symbol \in DOMAIN d.positions
        THEN LET pos == d.positions[symbol]
                 new_qty == pos.quantity_total - qty
             IN  [paid EXCEPT !.positions[symbol] =
                    [pos EXCEPT !.quantity_total = new_qty,
                                !.quantity_available = new_qty]]
        ELSE [paid EXCEPT !.positions = Put(@, symbol, NewPosition(symbol, -qty, price))]

(* ExecuteSell that takes the trade value out of the cash.                  *)
ExecuteSellDebits(d, symbol, qty, price, trade_value) ==
    LET paid == [d EXCEPT !.current_cash = RSub(@, trade_value)]
    IN  IF symbol \in DOMAIN d.positions
        THEN LET pos == d.positions[symbol]
                 new_qty == pos.quantity_total - qty
             IN  IF new_qty = 0
                 THEN [paid EXCEPT !.positions = Del(@, symbol)]
                 ELSE [paid EXCEPT !.positions[symbol] =
                         [pos EXCEPT !.quantity_total = new_qty,
                                     !.quantity_available = new_qty]]
        ELSE [paid EXCEPT !.positions = Put(@, symbol, NewPosition(symbol, -qty, price))]

(* _execute_trade, SELL branch: the average price is left as it is.         *)
ExecuteSell(d, symbol, qty, price, trade_value) ==
    LET paid == [d EXCEPT !.current_cash = RAdd(@, trade_value)]
    IN  IF symbol \in DOMAIN d.positions
        THEN LET pos == d.positions[symbol]
                 new_qty == pos.quantity_total - qty
             IN  IF new_qty = 0
                 THEN [paid EXCEPT !.positions = Del(@, symbol)]
                 ELSE [paid EXCEPT !.positions[symbol] =
                         [pos EXCEPT !.quantity_total = new_qty,
                                     !.quantity_available = new_qty]]
        ELSE [paid EXCEPT !.positions = Put(@, symbol, NewPosition(symbol, -qty, price))]

ExecuteTrade(d, order) ==
    LET trade_value == RMul(R(order.quantity), order.price)
        filled == IF order.transaction_type = "BUY"
                  THEN ExecuteBuy(d, order.symbol, order.quantity, order.price, trade_value)
                  ELSE ExecuteSell(d, order.symbol, order.quantity, order.price, trade_value)
    IN  [filled EXCEPT !.trades = Append(@, order)]

RequiredMargin(request) == RMul(Rat(request.quantity, LotSize), R(MarginPerLot))

AvailableMargin(d) == RSub(GetFunds(d).equity, GetFunds(d).used_margin)

(* The margin test applied to BUY requests as well.                         *)
MarginRejectsAnySide(d, request) ==
    RLt(AvailableMargin(d), RequiredMargin(request))

MarginRejects(d, request) ==
    /\ request.transaction_type = "SELL"
    /\ RLt(AvailableMargin(d), RequiredMargin(request))

ErrorResponse(message) ==
    [status |-> "error", order_id |-> NoOrderId, message |-> message]

(* The order entry with an id that does not follow the order log.          *)
OrderEntryFixedId(d, request, price) ==
    [order_id |-> <<"BT", 1>>,
     symbol |-> request.symbol,
     transaction_type |-> request.transaction_type,
     quantity |-> request.quantity,
     price |-> price,
     status |-> "COMPLETE",
     timestamp |-> d.current_time]

OrderEntry(d, request, price) ==
    [order_id |-> <<"BT", Len(d.orders) + 1>>,
     symbol |-> request.symbol,
     transaction_type |-> request.transaction_type,
     quantity |-> request.quantity,
     price |-> price,
     status |-> "COMPLETE",
     timestamp |-> d.current_time]

(* The fill that puts the entry in the trade log only.                      *)
FillSkipsOrderLog(d, order_entry) ==
    [driver |-> ExecuteTrade(d, order_entry),
     response |-> [status |-> "ok", order_id |-> order_entry.order_id, message |-> None]]

Fill(d, order_entry) ==
    [driver |-> ExecuteTrade([d EXCEPT !.orders = Append(@, order_entry)], order_entry),
     response |-> [status |-> "ok", order_id |-> order_entry.order_id, message |-> None]]

(* place_order with the price check left out.                               *)
PlaceOrderNoPriceCheck(d, request) ==
    LET price == GetQuote(d, request.symbol).last_price
    IN  IF MarginRejects(d, request)
        THEN [driver |-> d, response |-> ErrorResponse("Insufficient Margin")]
        ELSE Fill(d, OrderEntry(d, request, price))

(* place_order with the margin check left out.                              *)
PlaceOrderNoMarginCheck(d, request) ==
    LET price == GetQuote(d, request.symbol).last_price
    IN  IF price = R(0)
        THEN [driver |-> d, response |-> ErrorResponse("No price")]
        ELSE Fill(d, OrderEntry(d, request, price))

(* place_order: the response and the driver after the call.                 *)
PlaceOrder(d, request) ==
    LET price == GetQuote(d, request.symbol).last_price
    IN  IF price = R(0)
        THEN [driver |-> d, response |-> ErrorResponse("No price")]
        ELSE IF MarginRejects(d, request)
        THEN [driver |-> d, response |-> ErrorResponse("Insufficient Margin")]
        ELSE Fill(d, OrderEntry(d, request, price))

Requests ==
    [symbol : Symbols, transaction_type : {"BUY", "SELL"}, quantity : Quantities]

----------------------------------------------------------------------------
(* Operations on the driver.                                                *)

NoRequest == [symbol |-> None, transaction_type |-> None, quantity |-> 0]
NoResponse == [status |-> None, order_id |-> NoOrderId, message |-> None]
NoCall == [op |-> "init", request |-> NoRequest, price |-> 0, response |-> NoResponse]

DriverSetPrice(symbol, price) ==
    /\ driver' = SetPrice(driver, symbol, R(price))
    /\ last_call' = [op |-> "set_price", request |-> [NoRequest EXCEPT !.symbol = symbol],
                     price |-> price, response |-> NoResponse]
    /\ UNCHANGED <<riskVars, engine, strategyVars, provider, pricing>>

DriverPlaceOrder(request) ==
    /\ Len(driver.orders) < MaxOrders
    /\ LET r == PlaceOrder(driver, request)
       IN  /\ driver' = r.driver
           /\ last_call' = [op |-> "place_order", request |-> request, price |-> 0,
                            response |-> r.response]
    /\ UNCHANGED <<riskVars, engine, strategyVars, provider, pricing>>

DriverNext ==
    \/ \E s \in Symbols, p \in Prices : DriverSetPrice(s, p)
    \/ \E request \in Requests : DriverPlaceOrder(request)

----------------------------------------------------------------------------
(* MasterRiskController                                                     *)

MasterRiskControllerInit ==
    [max_global_drawdown   |-> MaxGlobalDrawdown,
     max_orders_per_minute |-> MaxOrdersPerMinute,
     global_pnl            |-> 0,
     is_halted             |-> FALSE,
     order_timestamps      |-> <<>>]

(* _check_velocity without the recording of the admitted order's time.      *)
CheckVelocityNoRecord(r, now) ==
    LET Recent(t) == now - t < VelocityWindow
        cleaned == SelectSeq(r.order_timestamps, Recent)
    IN  [ok |-> Len(cleaned) < r.max_orders_per_minute,
         risk |-> [r EXCEPT !.order_timestamps = cleaned]]

(* _check_velocity with > where the code has >=.                            *)
CheckVelocityOffByOne(r, now) ==
    LET Recent(t) == now - t < VelocityWindow
        cleaned == SelectSeq(r.order_timestamps, Recent)
    IN  IF Len(cleaned) > r.max_orders_per_minute
        THEN [ok |-> FALSE, risk |-> [r EXCEPT !.order_timestamps = cleaned]]
        ELSE [ok |-> TRUE, risk |-> [r EXCEPT !.order_timestamps = Append(cleaned, now)]]

(* _check_velocity at time.time() = now: the answer and the controller      *)
(* after the call.                                                          *)
CheckVelocity(r, now) ==
    LET Recent(t) == now - t < VelocityWindow
        cleaned == SelectSeq(r.order_timestamps, Recent)
    IN  IF Len(cleaned) >= r.max_orders_per_minute
        THEN [ok |-> FALSE, risk |-> [r EXCEPT !.order_timestamps = cleaned]]
        ELSE [ok |-> TRUE, risk |-> [r EXCEPT !.order_timestamps = Append(cleaned, now)]]

(* update_global_pnl that recomputes the flag from the latest P&L.          *)
UpdateGlobalPnlRecomputes(r, realized, unrealized) ==
    [r EXCEPT !.global_pnl = realized + unrealized,
              !.is_halted = realized + unrealized <= -Abs(r.max_global_drawdown)]

UpdateGlobalPnl(r, realized, unrealized) ==
    LET global_pnl == realized + unrealized
    IN  IF global_pnl <= -Abs(r.max_global_drawdown)
        THEN [r EXCEPT !.global_pnl = global_pnl, !.is_halted = TRUE]
        ELSE [r EXCEPT !.global_pnl = global_pnl]

(* The dict the gate returns when it rejects.                               *)
RiskRejection(message) ==
    [status |-> "error", order_id |-> NoOrderId, message |-> message]

(* place_order that gives the slot back when the backend answers an error.  *)
RiskGateReleasesOnError(r, now, request, backend_response) ==
    IF r.is_halted
    THEN [risk |-> r, forwarded |-> FALSE, response |-> RiskRejection("Risk System Halted")]
    ELSE LET v == CheckVelocity(r, now)
         IN  IF ~v.ok
             THEN [risk |-> v.risk, forwarded |-> FALSE,
                   response |-> RiskRejection("Velocity Limit Exceeded")]
             ELSE IF backend_response.status = "error"
             THEN [risk |-> CheckVelocityNoRecord(r, now).risk, forwarded |-> TRUE,
                   response |-> backend_response]
             ELSE [risk |-> v.risk, forwarded |-> TRUE, response |-> backend_response]

(* MasterRiskController.place_order at time now; backend_response is what   *)
(* broker.place_order answers if it is called. forwarded tells whether it   *)
(* was called.                                                              *)
RiskGate(r, now, request, backend_response) ==
    IF r.is_halted
    THEN [risk |-> r, forwarded |-> FALSE, response |-> RiskRejection("Risk System Halted")]
    ELSE LET v == CheckVelocity(r, now)
         IN  IF ~v.ok
             THEN [risk |-> v.risk, forwarded |-> FALSE,
                   response |-> RiskRejection("Velocity Limit Exceeded")]
             ELSE [risk |-> v.risk, forwarded |-> TRUE, response |-> backend_response]

(* What the wrapped backend may answer.                                     *)
BackendResponses ==
    {[status |-> "ok", order_id |-> <<"BT", 1>>, message |-> None],
     ErrorResponse("Insufficient Margin")}

RiskRequests == {r \in Requests : r.symbol = "NIFTY" /\ r.quantity = 25}
PnlRealized == {-5001, 0, 5000}           \* update_global_pnl(realized, ...)
PnlUnrealized == {0, 1}                   \* update_global_pnl(..., unrealized)
TimeSteps == {1, 59, 60}                  \* seconds between two readings of the clock

NoRiskCall == [op |-> "init", request |-> NoRequest, response |-> NoResponse,
               backend_response |-> NoResponse]

TimePasses(step) ==
    /\ ticks < MaxTicks
    /\ ticks' = ticks + 1
    /\ clock' = clock + step
    /\ risk_call' = [NoRiskCall EXCEPT !.op = "time"]
    /\ UNCHANGED <<risk, backend>>
    /\ UNCHANGED <<driverVars, engine, strategyVars, provider, pricing>>

RiskPlaceOrder(request, backend_response) ==
    /\ Len(backend) < MaxForwarded
    /\ LET g == RiskGate(risk, clock, request, backend_response)
       IN  /\ risk' = g.risk
           /\ backend' = IF g.forwarded
                         THEN Append(backend, [request |-> request, at |-> clock])
                         ELSE backend
           /\ risk_call' = [op |-> "place_order", request |-> request,
                            response |-> g.response,
                            backend_response |-> IF g.forwarded THEN backend_response
                                                 ELSE NoResponse]
    /\ UNCHANGED <<clock, ticks>>
    /\ UNCHANGED <<driverVars, engine, strategyVars, provider, pricing>>

RiskUpdateGlobalPnl(realized, unrealized) ==
    /\ risk' = UpdateGlobalPnl(risk, realized, unrealized)
    /\ risk_call' = [NoRiskCall EXCEPT !.op = "update_global_pnl"]
    /\ UNCHANGED <<clock, ticks, backend>>
    /\ UNCHANGED <<driverVars, engine, strategyVars, provider, pricing>>

(* cancel_order that refuses while the gate is halted.                      *)
RiskCancelOrderGated(r, order_id, backend_response) ==
    IF r.is_halted
    THEN [risk |-> r, forwarded |-> FALSE, response |-> RiskRejection("Risk System Halted")]
    ELSE [risk |-> r, forwarded |-> TRUE, response |-> backend_response]

(* MasterRiskController.cancel_order; backend_response is what              *)
(* broker.cancel_order answers.                                             *)
RiskCancelOrder(r, order_id, backend_response) ==
    [risk |-> r, forwarded |-> TRUE, response |-> backend_response]

CancelIds == {<<"BT", 1>>}
CancelResponses(order_id) ==
    {[status |-> "ok", order_id |-> order_id,
      message |-> "Order already executed or cancelled"],
     [status |-> "error", order_id |-> order_id, message |-> "Not found"]}

RiskCancel(order_id, backend_response) ==
    /\ LET c == RiskCancelOrder(risk, order_id, backend_response)
       IN  /\ risk' = c.risk
           /\ risk_call' = [op |-> "cancel_order", request |-> NoRequest,
                            response |-> c.response,
                            backend_response |-> IF c.forwarded THEN backend_response
                                                 ELSE NoResponse]
    /\ UNCHANGED <<clock, ticks, backend>>
    /\ UNCHANGED <<driverVars, engine, strategyVars, provider, pricing>>

(* StrategyManager.get_all_states: pnls gives realized_pnl + unrealized_pnl  *)
(* of each registered strategy's state; the sum goes to the risk gate.      *)
StatePnls == {-2500, 0}

RECURSIVE SumOver(_, _)
SumOver(f, keys) ==
    IF keys = {} THEN 0
    ELSE LET k == CHOOSE x \in keys : TRUE
         IN  f[k] + SumOver(f, keys \ {k})

GetAllStates(r, pnls) ==
    LET current_global_pnl == SumOver(pnls, DOMAIN pnls)
    IN  UpdateGlobalPnl(r, current_global_pnl, 0)

(* GET /api/status: get_all_states is called twice.                         *)
DashboardGetStatus(pnls) ==
    /\ risk' = GetAllStates(GetAllStates(risk, pnls), pnls)
    /\ risk_call' = [NoRiskCall EXCEPT !.op = "get_status"]
    /\ UNCHANGED <<clock, ticks, backend>>
    /\ UNCHANGED <<driverVars, engine, strategyVars, provider, pricing>>

(* One round of the /ws/status loop, up to its awaits.                      *)
DashboardBroadcast(pnls) ==
    /\ risk' = GetAllStates(GetAllStates(risk, pnls), pnls)
    /\ risk_call' = [NoRiskCall EXCEPT !.op = "broadcast"]
    /\ UNCHANGED <<clock, ticks, backend>>
    /\ UNCHANGED <<driverVars, engine, strategyVars, provider, pricing>>

RiskNext ==
    \/ \E step \in TimeSteps : TimePasses(step)
    \/ \E request \in RiskRequests, b \in BackendResponses : RiskPlaceOrder(request, b)
    \/ \E realized \in PnlRealized, unrealized \in PnlUnrealized :
          RiskUpdateGlobalPnl(realized, unrealized)
    \/ \E pnls \in [{"Survivor", "Wave Extractor"} -> StatePnls] : DashboardGetStatus(pnls)
    \/ \E pnls \in [{"Survivor", "Wave Extractor"} -> StatePnls] : DashboardBroadcast(pnls)
    \/ \E order_id \in CancelIds :
          \E b \in CancelResponses(order_id) : RiskCancel(order_id, b)

RiskIdle ==
    /\ risk = MasterRiskControllerInit
    /\ clock = 0
    /\ ticks = 0
    /\ backend = <<>>
    /\ risk_call = NoRiskCall

DriverIdle ==
    /\ driver = BacktestDriverInit(InitialCapital)
    /\ last_call = NoCall

----------------------------------------------------------------------------
(* BacktestEngine.run                                                       *)

IndexSymbol == "NIFTY"                       \* config['index_symbol']
ChainPrefixes == {"NIFTY26FEB", "NIFTY26MAR"}
NoChain == ""                                \* no chain, or an empty CE table

(* Daily bars: Low <= Open, Close <= High. ohlc tells whether the row has   *)
(* the Open/High/Low columns.                                               *)
Bars ==
    {[Open |-> 1, High |-> 2, Low |-> 1, Close |-> 2, ohlc |-> TRUE],
     [Open |-> 2, High |-> 2, Low |-> 1, Close |-> 1, ohlc |-> TRUE],
     [Open |-> 1, High |-> 1, Low |-> 1, Close |-> 1, ohlc |-> FALSE]}

NoRow == [date |-> NoTime, Open |-> 0, High |-> 0, Low |-> 0, Close |-> 0, ohlc |-> FALSE]
RowOf(date, b) == [date |-> date, Open |-> b.Open, High |-> b.High, Low |-> b.Low,
                   Close |-> b.Close, ohlc |-> b.ohlc]

(* What the data provider answers on one date: the price of each symbol (0  *)
(* when it finds none) and the prefix of the chain's first CE symbol.       *)
ProviderAnswers ==
    {[prices |-> [s \in Symbols |-> 1], prefix |-> "NIFTY26FEB"],
     [prices |-> [s \in Symbols |-> 1], prefix |-> "NIFTY26MAR"],
     [prices |-> [s \in Symbols |-> IF s = IndexSymbol THEN 1 ELSE 0], prefix |-> NoChain]}

(* The requests a strategy callback makes on one tick, in order.            *)
EngineRequests == {r \in Requests : r.symbol # IndexSymbol /\ r.quantity = 25}
CallbackOrders ==
    UNION {[1..n -> EngineRequests] : n \in 0..MaxOrdersPerTick}

NoTick == [price |-> 0, delivered |-> FALSE, new_trades |-> 0]

BacktestEngineInit(prefix) ==
    [pc                 |-> "init",
     csv_provider       |-> FALSE,
     max_trades_per_day |-> MaxTradesPerDay,
     daily_trade_count  |-> EmptyDict,
     skip_first_day     |-> TRUE,
     row                |-> NoRow,
     tick               |-> 0,
     rows_done          |-> 0,
     symbol_initials    |-> prefix,
     chain_prefix       |-> NoChain,
     refreshes          |-> 0,
     last_tick          |-> NoTick,
     total_trades       |-> 0,
     results_saved      |-> FALSE]

(* The simulated ticks in the order Open, Low, High, Close.                 *)
SubTickPricesLowFirst(row) ==
    IF row.ohlc THEN <<row.Open, row.Low, row.High, row.Close>> ELSE <<row.Close>>

(* Simulated ticks of a row: Open, High, Low, Close, or the close alone.    *)
SubTickPrices(row) ==
    IF row.ohlc THEN <<row.Open, row.High, row.Low, row.Close>> ELSE <<row.Close>>

(* The rolling-expiry block without the update of the tracked prefix.       *)
RollExpiryNoTrack(e, prefix) ==
    IF prefix # NoChain /\ prefix # e.symbol_initials
    THEN [e EXCEPT !.chain_prefix = prefix, !.refreshes = @ + 1]
    ELSE [e EXCEPT !.chain_prefix = prefix]

(* The rolling-expiry block: adopt the chain's prefix and refresh the       *)
(* strategy's instruments when it differs from the tracked one.             *)
(* chain_prefix keeps the prefix the current row's chain showed.            *)
RollExpiry(e, prefix) ==
    IF prefix # NoChain /\ prefix # e.symbol_initials
    THEN [e EXCEPT !.chain_prefix = prefix, !.symbol_initials = prefix,
                   !.refreshes = @ + 1]
    ELSE [e EXCEPT !.chain_prefix = prefix]

(* The marks of the held symbols other than the index, refreshed from       *)
(* get_quote.                                                               *)
RECURSIVE RefreshOpen(_, _)
RefreshOpen(d, symbols) ==
    IF symbols = {} THEN d
    ELSE LET symbol == CHOOSE x \in symbols : TRUE
             quote == GetQuote(d, symbol)
             next == IF symbol # IndexSymbol /\ quote.last_price # R(0)
                     THEN SetPrice(d, symbol, quote.last_price)
                     ELSE d
         IN  RefreshOpen(next, symbols \ {symbol})

(* The strategy callback: its orders, placed one after the other.           *)
RECURSIVE PlaceAll(_, _)
PlaceAll(d, requests) ==
    IF requests = <<>> THEN d
    ELSE PlaceAll(PlaceOrder(d, Head(requests)).driver, Tail(requests))

Get(f, k, default) == IF k \in DOMAIN f THEN f[k] ELSE default

(* load_csv_data: the engine and the driver get the data provider.          *)
EngineLoadCsvData(answers) ==
    /\ engine.pc = "init"
    /\ ~engine.csv_provider
    /\ engine' = [engine EXCEPT !.csv_provider = TRUE]
    /\ driver' = [driver EXCEPT !.csv_provider = answers.prices]
    /\ UNCHANGED <<last_call, riskVars, strategyVars, provider, pricing>>

(* run() on an engine that never loaded CSV data: the first row seeds the   *)
(* clock and the index mark, then reading self.csv_provider raises          *)
(* AttributeError.                                                          *)
EngineRunWithoutProvider(bar) ==
    /\ engine.pc = "init"
    /\ ~engine.csv_provider
    /\ driver' = SetPrice([driver EXCEPT !.current_time = 1], IndexSymbol, R(bar.Close))
    /\ engine' = [engine EXCEPT !.pc = "raised", !.row = RowOf(1, bar)]
    /\ UNCHANGED <<last_call, riskVars, strategyVars, provider, pricing>>

(* run() on an empty frame that goes on to the metrics and the save.        *)
EngineRunEmptySavesResults ==
    /\ engine.pc = "init"
    /\ engine' = [engine EXCEPT !.pc = "aborted", !.total_trades = Len(driver.trades),
                                !.results_saved = TRUE]
    /\ UNCHANGED <<driverVars, riskVars, strategyVars, provider, pricing>>

(* run() on an empty frame.                                                 *)
EngineRunEmpty ==
    /\ engine.pc = "init"
    /\ engine' = [engine EXCEPT !.pc = "aborted"]
    /\ UNCHANGED <<driverVars, riskVars, strategyVars, provider, pricing>>

(* The first row handled like every later row, without the cold-start skip. *)
EngineFirstRowNoSkip(bar, answers) ==
    /\ engine.pc = "init"
    /\ engine.csv_provider
    /\ LET row == RowOf(1, bar)
       IN  /\ driver' = SetPrice([driver EXCEPT !.current_time = row.date,
                                               !.csv_provider = answers.prices],
                                 IndexSymbol, R(row.Close))
           /\ engine' = [RollExpiry(engine, answers.prefix) EXCEPT
                            !.pc = "ticks", !.row = row, !.tick = 1, !.rows_done = 1]
    /\ UNCHANGED <<last_call, riskVars, strategyVars, provider, pricing>>

(* run() up to the end of the first row's iteration: the clock and the      *)
(* index mark are seeded, the strategy is built, the chain is looked at.    *)
EngineFirstRow(bar, answers) ==
    /\ engine.pc = "init"
    /\ engine.csv_provider
    /\ LET row == RowOf(1, bar)
           seeded == SetPrice([driver EXCEPT !.current_time = row.date,
                                             !.csv_provider = answers.prices],
                              IndexSymbol, R(row.Close))
       IN  /\ driver' = SetPrice(seeded, IndexSymbol, R(row.Close))
           /\ engine' = [RollExpiry(engine, answers.prefix) EXCEPT
                            !.pc = "rows", !.row = row, !.rows_done = 1,
                            !.skip_first_day = FALSE]
    /\ UNCHANGED <<last_call, riskVars, strategyVars, provider, pricing>>

(* The head of the loop body for a later row.                               *)
EngineNextRow(date, bar, answers) ==
    /\ engine.pc = "rows"
    /\ engine.rows_done < MaxRows
    /\ date \in {engine.row.date, engine.row.date + 1}
    /\ driver' = [driver EXCEPT !.current_time = date, !.csv_provider = answers.prices]
    /\ engine' = [RollExpiry(engine, answers.prefix) EXCEPT
                     !.pc = "ticks", !.row = RowOf(date, bar), !.tick = 1,
                     !.rows_done = @ + 1]
    /\ UNCHANGED <<last_call, riskVars, strategyVars, provider, pricing>>

(* One simulated tick that counts a tick with trades as one trade.          *)
EngineSubTickCountsOne(requests) ==
    /\ engine.pc = "ticks"
    /\ Len(driver.orders) + Len(requests) <= MaxOrders
    /\ LET prices == SubTickPrices(engine.row)
           price == prices[engine.tick]
           marked == RefreshOpen(SetPrice(driver, IndexSymbol, R(price)),
                                 DOMAIN driver.positions)
           date_str == engine.row.date
           trades_today == Get(engine.daily_trade_count, date_str, 0)
           pre_trade_count == Len(marked.trades)
           deliver == trades_today < engine.max_trades_per_day
           after == IF deliver THEN PlaceAll(marked, requests) ELSE marked
           post_trade_count == Len(after.trades)
           new_trades == post_trade_count - pre_trade_count
       IN  /\ deliver \/ requests = <<>>
           /\ driver' = after
           /\ engine' = [engine EXCEPT
                  !.daily_trade_count =
                      IF post_trade_count > pre_trade_count
                      THEN Put(@, date_str, trades_today + 1)
                      ELSE @,
                  !.last_tick = [price |-> price, delivered |-> deliver,
                                 new_trades |-> new_trades],
                  !.tick = IF engine.tick = Len(prices) THEN 0 ELSE @ + 1,
                  !.pc = IF engine.tick = Len(prices) THEN "rows" ELSE "ticks"]
    /\ UNCHANGED <<last_call, riskVars, strategyVars, provider, pricing>>

(* One simulated tick: marks, trade limit check, callback, trade count.     *)
EngineSubTick(requests) ==
    /\ engine.pc = "ticks"
    /\ Len(driver.orders) + Len(requests) <= MaxOrders
    /\ LET prices == SubTickPrices(engine.row)
           price == prices[engine.tick]
           marked == RefreshOpen(SetPrice(driver, IndexSymbol, R(price)),
                                 DOMAIN driver.positions)
           date_str == engine.row.date
           trades_today == Get(engine.daily_trade_count, date_str, 0)
           pre_trade_count == Len(marked.trades)
           deliver == trades_today < engine.max_trades_per_day
           after == IF deliver THEN PlaceAll(marked, requests) ELSE marked
           post_trade_count == Len(after.trades)
           new_trades == post_trade_count - pre_trade_count
       IN  /\ deliver \/ requests = <<>>
           /\ driver' = after
           /\ engine' = [engine EXCEPT
                  !.daily_trade_count =
                      IF post_trade_count > pre_trade_count
                      THEN Put(@, date_str, trades_today + new_trades)
                      ELSE @,
                  !.last_tick = [price |-> price, delivered |-> deliver,
                                 new_trades |-> new_trades],
                  !.tick = IF engine.tick = Len(prices) THEN 0 ELSE @ + 1,
                  !.pc = IF engine.tick = Len(prices) THEN "rows" ELSE "ticks"]
    /\ UNCHANGED <<last_call, riskVars, strategyVars, provider, pricing>>

(* calculate_metrics and save_results once the rows are exhausted.          *)
EngineFinish ==
    /\ engine.pc = "rows"
    /\ engine' = [engine EXCEPT !.pc = "done", !.total_trades = Len(driver.trades),
                                !.results_saved = TRUE]
    /\ UNCHANGED <<driverVars, riskVars, strategyVars, provider, pricing>>

EngineNext ==
    \/ \E answers \in ProviderAnswers : EngineLoadCsvData(answers)
    \/ \E bar \in Bars : EngineRunWithoutProvider(bar)
    \/ EngineRunEmpty
    \/ \E bar \in Bars, answers \in ProviderAnswers : EngineFirstRow(bar, answers)
    \/ \E date \in 1..MaxRows, bar \in Bars, answers \in ProviderAnswers :
          EngineNextRow(date, bar, answers)
    \/ \E requests \in CallbackOrders : EngineSubTick(requests)
    \/ EngineFinish

EngineIdle == engine = BacktestEngineInit("NIFTY26FEB")

----------------------------------------------------------------------------
(* BaseStrategy: start, stop and the loop task, as steps of one event loop  *)

Strategies == {"Survivor", "Wave Extractor"}

STOPPED == "Stopped"
RUNNING == "Running"
ERROR == "Error"

NoTask == 0

(* A loop task is "created" until it first runs, "tick" while suspended     *)
(* inside on_tick, "sleep" while in asyncio.sleep and "done" once           *)
(* _main_loop has returned. stops holds, for each stop call suspended at    *)
(* its await, the task it waits for.                                        *)
BaseStrategyInit(name) ==
    [name          |-> name,
     status        |-> STOPPED,
     _is_running   |-> FALSE,
     _run_task     |-> NoTask,
     tasks         |-> <<>>,
     stops         |-> <<>>,
     on_start_runs |-> 0,
     on_stop_runs  |-> 0]

(* start() that skips the running-flag check.                               *)
StartUnguarded(st) ==
    [st EXCEPT !.status = RUNNING,
               !._is_running = TRUE,
               !.on_start_runs = @ + 1,
               !.tasks = Append(@, "created"),
               !._run_task = Len(st.tasks) + 1]

(* start()                                                                  *)
Start(st) ==
    IF st._is_running
    THEN st
    ELSE [st EXCEPT !.status = RUNNING,
                    !._is_running = TRUE,
                    !.on_start_runs = @ + 1,
                    !.tasks = Append(@, "created"),
                    !._run_task = Len(st.tasks) + 1]

(* stop() that skips the running-flag check.                                *)
StopUnguarded(st) ==
    LET flagged == [st EXCEPT !._is_running = FALSE, !.status = STOPPED]
    IN  IF st._run_task # NoTask /\ st.tasks[st._run_task] # "done"
        THEN [flagged EXCEPT !.stops = Append(@, st._run_task)]
        ELSE [flagged EXCEPT !.on_stop_runs = @ + 1]

(* stop() up to its await: a finished task is awaited without suspending,   *)
(* so the teardown hook runs in the same step.                              *)
Stop(st) ==
    IF ~st._is_running
    THEN st
    ELSE LET flagged == [st EXCEPT !._is_running = FALSE, !.status = STOPPED]
         IN  IF st._run_task # NoTask /\ st.tasks[st._run_task] # "done"
             THEN [flagged EXCEPT !.stops = Append(@, st._run_task)]
             ELSE [flagged EXCEPT !.on_stop_runs = @ + 1]

Remove(seq, i) == SubSeq(seq, 1, i - 1) \o SubSeq(seq, i + 1, Len(seq))

(* stop() from its await to the end: the teardown hook.                     *)
StopResume(st, i) ==
    [st EXCEPT !.stops = Remove(@, i), !.on_stop_runs = @ + 1]

(* The except clause of _main_loop, which also stops every other strategy.  *)
MainLoopExceptStopsAll(ss, name, task) ==
    [n \in DOMAIN ss |->
        IF n = name
        THEN [ss[n] EXCEPT !.status = ERROR, !._is_running = FALSE, !.tasks[task] = "done"]
        ELSE [ss[n] EXCEPT !._is_running = FALSE]]

(* The except clause of _main_loop that leaves the running flag set.        *)
MainLoopExceptKeepsFlag(ss, name, task) ==
    [ss EXCEPT ![name] = [@ EXCEPT !.status = ERROR, !.tasks[task] = "done"]]

(* The except clause of _main_loop, after which the task returns.           *)
MainLoopExcept(ss, name, task) ==
    [ss EXCEPT ![name] = [@ EXCEPT !.status = ERROR,
                                   !._is_running = FALSE,
                                   !.tasks[task] = "done"]]

(* The while test of _main_loop and the call of on_tick, which suspends,    *)
(* returns or raises.                                                       *)
TickOutcomes == {"suspends", "returns", "raises"}

MainLoopWake(ss, name, task, outcome) ==
    IF ~ss[name]._is_running
    THEN [ss EXCEPT ![name].tasks[task] = "done"]
    ELSE IF outcome = "raises"
         THEN MainLoopExcept(ss, name, task)
         ELSE [ss EXCEPT ![name].tasks[task] =
                            IF outcome = "suspends" THEN "tick" ELSE "sleep"]

NoStrategyCall == [op |-> "init", name |-> "", task |-> NoTask, status |-> STOPPED]
StrategyCall(op, name, task) ==
    [op |-> op, name |-> name, task |-> task, status |-> strategies[name].status]

StrategyStart(name) ==
    /\ strategies[name]._is_running \/ Len(strategies[name].tasks) < MaxStarts
    /\ strategies' = [strategies EXCEPT ![name] = Start(@)]
    /\ strategy_call' = StrategyCall("start", name, NoTask)
    /\ UNCHANGED <<driverVars, riskVars, engine, provider, pricing>>

StrategyStop(name) ==
    /\ \/ ~strategies[name]._is_running
       \/ strategies[name].on_stop_runs + Len(strategies[name].stops) < MaxStops
    /\ strategies' = [strategies EXCEPT ![name] = Stop(@)]
    /\ strategy_call' = StrategyCall("stop", name, NoTask)
    /\ UNCHANGED <<driverVars, riskVars, engine, provider, pricing>>

StrategyStopResume(name, i) ==
    /\ i \in 1..Len(strategies[name].stops)
    /\ strategies[name].tasks[strategies[name].stops[i]] = "done"
    /\ strategies' = [strategies EXCEPT ![name] = StopResume(@, i)]
    /\ strategy_call' = StrategyCall("on_stop", name, strategies[name].stops[i])
    /\ UNCHANGED <<driverVars, riskVars, engine, provider, pricing>>

(* The loop task runs for the first time or wakes from its sleep.           *)
StrategyLoopWake(name, task, outcome) ==
    /\ task \in 1..Len(strategies[name].tasks)
    /\ strategies[name].tasks[task] \in {"created", "sleep"}
    /\ strategies' = MainLoopWake(strategies, name, task, outcome)
    /\ strategy_call' =
          StrategyCall(IF ~strategies[name]._is_running THEN "loop_exit"
                       ELSE IF outcome = "raises" THEN "tick_fail" ELSE "tick",
                       name, task)
    /\ UNCHANGED <<driverVars, riskVars, engine, provider, pricing>>

(* A suspended on_tick returns and the loop goes to sleep.                  *)
StrategyTickReturn(name, task) ==
    /\ task \in 1..Len(strategies[name].tasks)
    /\ strategies[name].tasks[task] = "tick"
    /\ strategies' = [strategies EXCEPT ![name].tasks[task] = "sleep"]
    /\ strategy_call' = StrategyCall("tick_return", name, task)
    /\ UNCHANGED <<driverVars, riskVars, engine, provider, pricing>>

(* A suspended on_tick raises.                                              *)
StrategyTickFail(name, task) ==
    /\ task \in 1..Len(strategies[name].tasks)
    /\ strategies[name].tasks[task] = "tick"
    /\ strategies' = MainLoopExcept(strategies, name, task)
    /\ strategy_call' = StrategyCall("tick_fail", name, task)
    /\ UNCHANGED <<driverVars, riskVars, engine, provider, pricing>>

StrategyNext ==
    \E name \in Strategies :
        \/ StrategyStart(name)
        \/ StrategyStop(name)
        \/ \E i \in 1..MaxStops : StrategyStopResume(name, i)
        \/ \E task \in 1..MaxStarts, outcome \in TickOutcomes :
              StrategyLoopWake(name, task, outcome)
        \/ \E task \in 1..MaxStarts : StrategyTickReturn(name, task)
        \/ \E task \in 1..MaxStarts : StrategyTickFail(name, task)

----------------------------------------------------------------------------
(* CSVDataProvider.get_option_chain                                         *)

Expiries == {8, 9}
ChainRows == [Date : 1..MaxChainDate, Expiry : Expiries]

(* A table is loaded with rows, or absent when its file was not found.      *)
Tables ==
    {[loaded |-> TRUE, rows |-> rows] : rows \in SUBSET ChainRows}
        \cup {[loaded |-> FALSE, rows |-> {}]}

NoSnapshot == [found |-> FALSE, CE |-> {}, PE |-> {}, date |-> NoTime, expiry |-> NoTime]

SetMax(S) == CHOOSE x \in S : \A y \in S : y <= x
SetMin(S) == CHOOSE x \in S : \A y \in S : x <= y

(* The near-month part of get_option_chain, on the subsets of one date.     *)
NearMonth(ce_subset, pe_subset, date) ==
    LET near_expiry == IF ce_subset = {} THEN NoTime
                       ELSE SetMin({r.Expiry : r \in ce_subset})
        ce_chain == {r \in ce_subset : r.Expiry = near_expiry}
        pe_chain == {r \in pe_subset : r.Expiry = near_expiry}
    IN  [found |-> TRUE, CE |-> ce_chain, PE |-> pe_chain,
         date |-> IF ce_chain # {} THEN (CHOOSE r \in ce_chain : TRUE).Date ELSE date,
         expiry |-> near_expiry]

GetOptionChain(ce_data, pe_data, date) ==
    IF ~ce_data.loaded \/ ~pe_data.loaded
    THEN NoSnapshot
    ELSE LET ce_subset == {r \in ce_data.rows : r.Date = date}
             pe_subset == {r \in pe_data.rows : r.Date = date}
         IN  IF ce_subset = {} /\ pe_subset = {}
             THEN LET earlier == {r.Date : r \in {x \in ce_data.rows : x.Date <= date}}
                  IN  IF earlier = {}
                      THEN NoSnapshot
                      ELSE LET last_date == SetMax(earlier)
                           IN  NearMonth({r \in ce_data.rows : r.Date = last_date},
                                         {r \in pe_data.rows : r.Date = last_date},
                                         date)
             ELSE NearMonth(ce_subset, pe_subset, date)

CSVDataProviderInit(ce_data, pe_data) ==
    [ce_data |-> ce_data, pe_data |-> pe_data, timestamp |-> NoTime, chain |-> NoSnapshot]

ProviderGetOptionChain(date) ==
    /\ provider' = [provider EXCEPT
                       !.timestamp = date,
                       !.chain = GetOptionChain(provider.ce_data, provider.pe_data, date)]
    /\ UNCHANGED <<driverVars, riskVars, engine, strategyVars, pricing>>

ChainNext == \E date \in 1..MaxChainDate : ProviderGetOptionChain(date)

----------------------------------------------------------------------------
(* CSVDataProvider.get_option_price                                         *)

MaxPriceDate == 2

(* A cell of the LTP or Close column as pandas read it: "-", a blank (NaN),  *)
(* a float, the text of a number (a column that holds a "-" is read as      *)
(* text), or some other text.                                               *)
Dash == [kind |-> "dash", value |-> 0]
Blank == [kind |-> "nan", value |-> 0]
Text == [kind |-> "text", value |-> 0]
Num(n) == [kind |-> "num", value |-> n]
Str(n) == [kind |-> "str", value |-> n]

LtpCells == {Dash, Blank, Text, Num(0), Num(5), Str(0)}
CloseCells == {Dash, Num(7)}
Strikes == {20000, 20100}

(* A price table has at most one row per date, in date order.               *)
NoPriceRow == [present |-> FALSE, Strike |-> 0, LTP |-> Dash, Close |-> Dash]
PriceRows ==
    {[present |-> TRUE, Strike |-> k, LTP |-> l, Close |-> c] :
        k \in Strikes, l \in LtpCells, c \in CloseCells}

NoPriceTable == [loaded |-> FALSE, rows |-> [d \in 1..MaxPriceDate |-> NoPriceRow]]
PriceTables ==
    {[loaded |-> TRUE, rows |-> rows] :
        rows \in [1..MaxPriceDate -> PriceRows \cup {NoPriceRow}]}
PeTables ==
    {NoPriceTable,
     [loaded |-> TRUE,
      rows |-> [d \in 1..MaxPriceDate |->
                  [present |-> TRUE, Strike |-> 20000, LTP |-> Num(5), Close |-> Num(7)]]]}

(* re.match(r"NIFTY(\d{2})([A-Z]{3})(\d+)(CE|PE)", symbol) on the symbols   *)
(* that are looked up.                                                      *)
PriceSymbols == {"NIFTY26FEB20000CE", "NIFTY26FEB20000PE", "NIFTY"}
ParseSymbol(symbol) ==
    CASE symbol = "NIFTY26FEB20000CE" ->
            [matched |-> TRUE, strike |-> 20000, type_str |-> "CE"]
      [] symbol = "NIFTY26FEB20000PE" ->
            [matched |-> TRUE, strike |-> 20000, type_str |-> "PE"]
      [] OTHER -> [matched |-> FALSE, strike |-> 0, type_str |-> ""]

(* What get_option_price returns: a float, which can be NaN.                *)
Price(n) == [nan |-> FALSE, value |-> n]
NaN == [nan |-> TRUE, value |-> 0]

(* From the value read in the row to the price returned: the LTP cell, or   *)
(* the Close cell when LTP is "-", NaN or 0; then float(), whose exception  *)
(* gives 0.0.                                                               *)
PriceOfRow(row) ==
    LET ltp == row.LTP
        val == IF ltp.kind = "dash" \/ ltp.kind = "nan"
                  \/ (ltp.kind = "num" /\ ltp.value = 0)
               THEN row.Close ELSE ltp
    IN  CASE val.kind = "dash" -> Price(0)
          [] val.kind = "num" -> Price(val.value)
          [] val.kind = "str" -> Price(val.value)
          [] val.kind = "nan" -> NaN
          [] OTHER -> Price(0)

(* get_option_price: the row of (date, strike), else the row of that strike *)
(* on the last date of the table that is not after date.                    *)
GetOptionPrice(ce_data, pe_data, symbol, date) ==
    LET match == ParseSymbol(symbol)
        data == IF match.type_str = "CE" THEN ce_data ELSE pe_data
        Has(d) == data.rows[d].present /\ data.rows[d].Strike = match.strike
        earlier == {d \in 1..MaxPriceDate : d <= date /\ data.rows[d].present}
    IN  IF ~match.matched THEN Price(0)
        ELSE IF ~data.loaded THEN Price(0)
        ELSE IF date \in 1..MaxPriceDate /\ Has(date) THEN PriceOfRow(data.rows[date])
        ELSE IF earlier = {} THEN Price(0)
        ELSE LET last_dt == SetMax(earlier)
             IN  IF Has(last_dt) THEN PriceOfRow(data.rows[last_dt]) ELSE Price(0)

PricingInit(ce_data, pe_data) ==
    [ce_data |-> ce_data, pe_data |-> pe_data, symbol |-> "", timestamp |-> NoTime,
     price |-> Price(0)]

ProviderGetOptionPrice(symbol, date) ==
    /\ pricing' = [pricing EXCEPT
                      !.symbol = symbol,
                      !.timestamp = date,
                      !.price = GetOptionPrice(pricing.ce_data, pricing.pe_data,
                                               symbol, date)]
    /\ UNCHANGED <<driverVars, riskVars, engine, strategyVars, provider>>

PriceNext ==
    \E symbol \in PriceSymbols, date \in 1..MaxPriceDate :
        ProviderGetOptionPrice(symbol, date)

PricingIdle == pricing = PricingInit(NoPriceTable, NoPriceTable)

ProviderIdle ==
    /\ provider = CSVDataProviderInit([loaded |-> FALSE, rows |-> {}],
                                      [loaded |-> FALSE, rows |-> {}])
    /\ PricingIdle

StrategyIdle ==
    /\ strategies = [name \in Strategies |-> BaseStrategyInit(name)]
    /\ strategy_call = NoStrategyCall

DriverInit == DriverIdle /\ RiskIdle /\ EngineIdle /\ StrategyIdle /\ ProviderIdle

SpecDriver == DriverInit /\ [][DriverNext]_vars

(* The driver constructed with a capital smaller than one fill, or with the *)
(* default one.                                                             *)
Capitals == {30, InitialCapital}

CapitalInit ==
    /\ \E initial_capital \in Capitals : driver = BacktestDriverInit(initial_capital)
    /\ last_call = NoCall
    /\ RiskIdle /\ EngineIdle /\ StrategyIdle /\ ProviderIdle

SpecCapital == CapitalInit /\ [][DriverNext]_vars

RiskInit == DriverIdle /\ RiskIdle /\ EngineIdle /\ StrategyIdle /\ ProviderIdle

SpecRisk == RiskInit /\ [][RiskNext]_vars

EngineInit ==
    /\ DriverIdle
    /\ RiskIdle
    /\ StrategyIdle
    /\ ProviderIdle
    /\ \E prefix \in ChainPrefixes : engine = BacktestEngineInit(prefix)

SpecEngine == EngineInit /\ [][EngineNext]_vars

StrategyInit == DriverIdle /\ RiskIdle /\ EngineIdle /\ StrategyIdle /\ ProviderIdle

SpecStrategy == StrategyInit /\ [][StrategyNext]_vars

ChainInit ==
    /\ DriverIdle
    /\ RiskIdle
    /\ EngineIdle
    /\ StrategyIdle
    /\ \E ce_data \in Tables, pe_data \in Tables :
          provider = CSVDataProviderInit(ce_data, pe_data)
    /\ PricingIdle

SpecChain == ChainInit /\ [][ChainNext]_vars

PriceInit ==
    /\ DriverIdle
    /\ RiskIdle
    /\ EngineIdle
    /\ StrategyIdle
    /\ provider = CSVDataProviderInit([loaded |-> FALSE, rows |-> {}],
                                      [loaded |-> FALSE, rows |-> {}])
    /\ \E ce_data \in PriceTables \cup {NoPriceTable}, pe_data \in PeTables :
          pricing = PricingInit(ce_data, pe_data)

SpecPrice == PriceInit /\ [][PriceNext]_vars

----------------------------------------------------------------------------
(* The driver with a data provider behind get_quote                         *)

MarkPrices == {0, 1}                  \* set_price(symbol, price), 0 included
ClockTimes == {1}                     \* set_current_time(dt)
ProviderRequests == {r \in Requests : r.quantity = 25}

DriverSetCsvProvider(answers) ==
    /\ driver' = [driver EXCEPT !.csv_provider = answers.prices]
    /\ last_call' = [NoCall EXCEPT !.op = "set_csv_provider"]
    /\ UNCHANGED <<riskVars, engine, strategyVars, provider, pricing>>

DriverSetCurrentTime(dt) ==
    /\ driver' = [driver EXCEPT !.current_time = dt]
    /\ last_call' = [NoCall EXCEPT !.op = "set_current_time"]
    /\ UNCHANGED <<riskVars, engine, strategyVars, provider, pricing>>

(* cancel_order that takes the order out of the order log.                  *)
CancelOrderRemoves(d, order_id) ==
    [driver |-> [d EXCEPT !.orders = SelectSeq(@, LAMBDA o : o.order_id # order_id)],
     response |-> [status |-> "ok", order_id |-> order_id,
                   message |-> "Order already executed or cancelled"]]

(* cancel_order: the response and the driver after the call.                *)
CancelOrder(d, order_id) ==
    [driver |-> d,
     response |-> [status |-> "ok", order_id |-> order_id,
                   message |-> "Order already executed or cancelled"]]

(* modify_order: the response and the driver after the call.                *)
ModifyOrder(d, order_id, updates) ==
    [driver |-> d,
     response |-> [status |-> "error", order_id |-> order_id,
                   message |-> "Modification not supported in simple backtest"]]

OrderIds == {<<"BT", 1>>, <<"BT", 9>>}    \* an id the driver hands out, and one it never does
Updates == {"quantity", "price"}          \* the key of the updates dict

DriverCancelOrder(order_id) ==
    /\ LET r == CancelOrder(driver, order_id)
       IN  /\ driver' = r.driver
           /\ last_call' = [NoCall EXCEPT !.op = "cancel_order", !.response = r.response]
    /\ UNCHANGED <<riskVars, engine, strategyVars, provider, pricing>>

DriverModifyOrder(order_id, updates) ==
    /\ LET r == ModifyOrder(driver, order_id, updates)
       IN  /\ driver' = r.driver
           /\ last_call' = [NoCall EXCEPT !.op = "modify_order", !.response = r.response]
    /\ UNCHANGED <<riskVars, engine, strategyVars, provider, pricing>>

ProviderNext ==
    \/ \E order_id \in OrderIds : DriverCancelOrder(order_id)
    \/ \E order_id \in OrderIds, updates \in Updates : DriverModifyOrder(order_id, updates)
    \/ \E answers \in ProviderAnswers : DriverSetCsvProvider(answers)
    \/ \E dt \in ClockTimes : DriverSetCurrentTime(dt)
    \/ \E s \in Symbols, p \in MarkPrices : DriverSetPrice(s, p)
    \/ \E request \in ProviderRequests : DriverPlaceOrder(request)

SpecProvider == DriverInit /\ [][ProviderNext]_vars

----------------------------------------------------------------------------
(* Claims about BacktestDriver, checked under SpecDriver.                   *)

Accepted == last_call.op = "place_order" /\ last_call.response.status = "ok"

RECURSIVE SignedFills(_, _)
SignedFills(trades, symbol) ==
    IF trades = <<>> THEN 0
    ELSE LET t == Head(trades)
             q == IF t.symbol # symbol THEN 0
                  ELSE IF t.transaction_type = "BUY" THEN t.quantity ELSE -t.quantity
         IN  q + SignedFills(Tail(trades), symbol)

(* C1: for every symbol, the stored position's quantity_total is the sum of *)
(* the accepted BUY quantities minus the sum of the accepted SELL           *)
(* quantities, and the symbol is absent from positions exactly when that    *)
(* signed sum is zero.                                                      *)
C1_PositionIsSignedSum ==
    \A s \in Symbols :
        LET n == SignedFills(driver.trades, s)
        IN  /\ (s \in DOMAIN driver.positions) <=> (n # 0)
            /\ s \in DOMAIN driver.positions => driver.positions[s].quantity_total = n

(* The log is full and a symbol that was both bought and sold is flat.     *)
C1_Witness ==
    \E s \in Symbols :
        /\ Len(driver.trades) = MaxOrders
        /\ s \notin DOMAIN driver.positions
        /\ \E i \in 1..Len(driver.trades) :
              driver.trades[i].symbol = s /\ driver.trades[i].transaction_type = "SELL"
        /\ \E i \in 1..Len(driver.trades) :
              driver.trades[i].symbol = s /\ driver.trades[i].transaction_type = "BUY"

(* C2: after exactly two accepted fills (q1,p1), (q2,p2) of the same        *)
(* direction on a symbol that had no position, the position's average_price *)
(* is (q1*p1 + q2*p2)/(q1+q2).                                              *)
C2_TwoFillAverage ==
    \A s \in Symbols :
        (/\ Len(driver.trades) = 2
         /\ driver.trades[1].symbol = s /\ driver.trades[2].symbol = s
         /\ driver.trades[1].transaction_type = driver.trades[2].transaction_type)
        => LET t1 == driver.trades[1]
               t2 == driver.trades[2]
           IN  driver.positions[s].average_price =
                   RDiv(RAdd(RMul(R(t1.quantity), t1.price), RMul(R(t2.quantity), t2.price)),
                        R(t1.quantity + t2.quantity))

(* Reference books for C3: average-cost accounting replayed from the trade  *)
(* log. A fill against a position closes min(q, |position|) at the fill     *)
(* price and realizes (price - average) per unit closed of a long,          *)
(* (average - price) per unit closed of a short; what is left over opens at *)
(* the fill price.                                                          *)
Sign(x) == IF x < 0 THEN -1 ELSE IF x > 0 THEN 1 ELSE 0
Min(a, b) == IF a < b THEN a ELSE b

RefFill(b, t) ==
    LET signed == IF t.transaction_type = "BUY" THEN t.quantity ELSE -t.quantity
        after == b.qty + signed
        closed == Min(t.quantity, Abs(b.qty))
    IN  IF b.qty = 0
        THEN [b EXCEPT !.qty = signed, !.avg = t.price]
        ELSE IF Sign(b.qty) = Sign(signed)
        THEN [b EXCEPT !.qty = after,
                       !.avg = RDiv(RAdd(RMul(b.avg, R(Abs(b.qty))),
                                         RMul(t.price, R(t.quantity))),
                                    R(Abs(after)))]
        ELSE [qty |-> after,
              avg |-> IF Sign(after) = Sign(signed) THEN t.price ELSE b.avg,
              realized |-> RAdd(b.realized,
                                RMul(R(closed * Sign(b.qty)), RSub(t.price, b.avg)))]

RECURSIVE RefBook(_, _)
RefBook(trades, symbol) ==
    IF trades = <<>> THEN [qty |-> 0, avg |-> R(0), realized |-> R(0)]
    ELSE LET t == trades[Len(trades)]
             b == RefBook(SubSeq(trades, 1, Len(trades) - 1), symbol)
         IN  IF t.symbol = symbol THEN RefFill(b, t) ELSE b

RefRealized == RSum([s \in Symbols |-> RefBook(driver.trades, s).realized], Symbols)

RefUnrealized ==
    RSum([s \in Symbols |->
            LET b == RefBook(driver.trades, s)
            IN  IF b.qty = 0 THEN R(0)
                ELSE RMul(RSub(driver.current_prices[s], b.avg), R(b.qty))],
         Symbols)

(* C3: right after an accepted fill (no set_price since), get_funds().equity *)
(* is the starting capital plus the realized P&L of the quantities closed   *)
(* plus the unrealized P&L of the open positions at the last marks.         *)
C3_EquityIsCapitalPlusPnl ==
    Accepted =>
        GetFunds(driver).equity =
            RAdd(driver.initial_capital, RAdd(RefRealized, RefUnrealized))

(* The margin a SELL needs, as the claim words it, against equity minus     *)
(* used margin.                                                             *)
OverMargin(d, request) ==
    /\ request.transaction_type = "SELL"
    /\ RLt(RSub(GetFunds(d).equity, GetFunds(d).used_margin),
           Rat(request.quantity * 100000, 50))

LedgerUnchanged ==
    /\ driver'.current_cash = driver.current_cash
    /\ driver'.positions = driver.positions
    /\ driver'.orders = driver.orders
    /\ driver'.trades = driver.trades

PlaceOrderStep == last_call'.op = "place_order"

(* C4 as stated: every SELL request whose required margin exceeds equity    *)
(* minus used margin is answered with the error 'Insufficient Margin' and   *)
(* changes neither cash, positions, order log nor trade log.                *)
C4_SellOverMarginRejected ==
    [][(PlaceOrderStep /\ OverMargin(driver, last_call'.request))
         => (/\ last_call'.response = ErrorResponse("Insufficient Margin")
             /\ LedgerUnchanged)]_vars

(* C4 amended: a SELL request over the available margin changes nothing and *)
(* is answered with an error; the error is 'Insufficient Margin' when the   *)
(* symbol's price resolves to a nonzero value and 'No price' when it does   *)
(* not (the price is resolved before the margin is looked at).              *)
C4_SellOverMarginRejectedWhenPriced ==
    [][(PlaceOrderStep /\ OverMargin(driver, last_call'.request))
         => (/\ LedgerUnchanged
             /\ last_call'.response =
                  IF GetQuote(driver, last_call'.request.symbol).last_price # R(0)
                  THEN ErrorResponse("Insufficient Margin")
                  ELSE ErrorResponse("No price"))]_vars

(* A SELL has just been refused for margin while a short position is open.  *)
C4_Witness ==
    /\ last_call.op = "place_order"
    /\ last_call.request.transaction_type = "SELL"
    /\ last_call.response = ErrorResponse("Insufficient Margin")
    /\ \E s \in DOMAIN driver.positions : driver.positions[s].quantity_total < 0

----------------------------------------------------------------------------
(* Claims about MasterRiskController, checked under SpecRisk.               *)

RiskPlaceOrderStep == risk_call'.op = "place_order"

(* C5: once update_global_pnl has seen realized + unrealized at or below    *)
(* the negative drawdown threshold, is_halted is set; once set it stays set *)
(* through every later step, whatever P&L later updates report; and every   *)
(* place_order made while it is set is rejected without reaching the        *)
(* backend.                                                                 *)
C5_HaltLatches ==
    [][/\ (risk_call'.op = "update_global_pnl" /\ risk'.global_pnl <= -5000)
            => risk'.is_halted
       /\ risk.is_halted => risk'.is_halted
       /\ (risk.is_halted /\ RiskPlaceOrderStep)
            => (/\ risk_call'.response = RiskRejection("Risk System Halted")
                /\ backend' = backend)]_vars

(* The gate is halted, a later update has reported a positive P&L, and an   *)
(* order has just been rejected for the halt.                               *)
C5_Witness ==
    /\ risk.is_halted
    /\ risk.global_pnl > 0
    /\ risk_call.op = "place_order"
    /\ risk_call.response = RiskRejection("Risk System Halted")

(* The timestamps of the window that are less than 60 seconds old.          *)
WindowCount(r, now) ==
    Cardinality({i \in DOMAIN r.order_timestamps : now - r.order_timestamps[i] < 60})

Admits(r, now) == ~r.is_halted /\ WindowCount(r, now) < MaxOrdersPerMinute

C7_VelocityCeiling ==
    \A i, j \in DOMAIN backend :
        (i <= j /\ backend[j].at - backend[i].at < 60)
            => j - i + 1 <= MaxOrdersPerMinute

(* More orders than the ceiling have been forwarded in all, the last one    *)
(* exactly 60 seconds after the first.                                      *)
C7_Witness ==
    /\ Len(backend) > MaxOrdersPerMinute
    /\ backend[Len(backend)].at - backend[1].at = 60

----------------------------------------------------------------------------
(* Claims about BacktestEngine.run                                          *)

TradesOn(date) ==
    Cardinality({i \in 1..Len(driver.trades) : driver.trades[i].timestamp = date})

(* C8: the trades appended to the driver's trade log during the sub-ticks   *)
(* of one calendar date never exceed max_trades_per_day.                    *)
C8_DailyTradeCeiling ==
    \A date \in 1..(MaxRows + 1) : TradesOn(date) <= engine.max_trades_per_day

----------------------------------------------------------------------------
(* Claims about BaseStrategy                                                *)

(* The strategy runs and a loop task of it has been given a tick.           *)
ReceivingTicks(st) ==
    /\ st.status = RUNNING
    /\ st._is_running
    /\ \E task \in 1..Len(st.tasks) : st.tasks[task] \in {"tick", "sleep"}

(* C9: a failure raised by one strategy's tick callback sets that           *)
(* strategy's status to Error, clears its running flag and lets its loop    *)
(* task return; every other strategy is left exactly as it was, so one that *)
(* was Running is still Running with its loop task alive.                   *)
C9_TickFailureIsolated ==
    [][strategy_call'.op = "tick_fail" =>
          LET name == strategy_call'.name
              task == strategy_call'.task
          IN  /\ strategies'[name].status = ERROR
              /\ ~strategies'[name]._is_running
              /\ strategies'[name].tasks[task] = "done"
              /\ \A other \in Strategies \ {name} :
                    /\ strategies'[other] = strategies[other]
                    /\ ReceivingTicks(strategies[other]) =>
                          ReceivingTicks(strategies'[other])]_vars

(* One strategy's tick has just failed while the other is Running and has   *)
(* been receiving ticks.                                                    *)
C9_Witness ==
    /\ strategy_call.op = "tick_fail"
    /\ strategies[strategy_call.name].status = ERROR
    /\ \E other \in Strategies \ {strategy_call.name} :
          ReceivingTicks(strategies[other])

StatusChange(name) == <<strategies[name].status, strategies'[name].status>>

LifecycleTransitions ==
    {<<STOPPED, RUNNING>>, <<RUNNING, STOPPED>>, <<RUNNING, ERROR>>}

(* C10: a strategy's status changes only along Stopped -> Running,           *)
(* Running -> Stopped and Running -> Error.                                 *)
C10_StatusTransitions ==
    [][\A name \in Strategies :
          \/ strategies'[name].status = strategies[name].status
          \/ StatusChange(name) \in LifecycleTransitions]_vars

(* C10, amended: besides those three changes, start takes an Error strategy *)
(* to Running, and the failure of a tick that was in flight when stop was   *)
(* called takes a Stopped strategy to Error; Error -> Stopped never occurs.  *)
C10_StatusTransitionsWithRestart ==
    [][\A name \in Strategies :
          \/ strategies'[name].status = strategies[name].status
          \/ StatusChange(name) \in LifecycleTransitions
          \/ /\ StatusChange(name) = <<ERROR, RUNNING>>
             /\ strategy_call'.op = "start"
             /\ strategy_call'.name = name
          \/ /\ StatusChange(name) = <<STOPPED, ERROR>>
             /\ strategy_call'.op = "tick_fail"
             /\ strategy_call'.name = name
             /\ strategies[name].tasks[strategy_call'.task] = "tick"]_vars

(* start has just taken a strategy from Error to Running.                   *)
C10_Witness ==
    /\ strategy_call.op = "start"
    /\ strategy_call.status = ERROR
    /\ strategies[strategy_call.name].status = RUNNING

TickInProgress(st) == \E task \in 1..Len(st.tasks) : st.tasks[task] = "tick"

(* C11: the teardown hook never runs while a tick callback of its strategy  *)
(* is in progress, and stop on a strategy whose running flag is clear       *)
(* changes nothing and runs no teardown hook.                               *)
C11_TeardownAfterLoop ==
    [][\A name \in Strategies :
          /\ strategies'[name].on_stop_runs > strategies[name].on_stop_runs =>
                ~TickInProgress(strategies[name])
          /\ (strategy_call'.op = "stop" /\ strategy_call'.name = name
                 /\ ~strategies[name]._is_running) =>
                strategies'[name] = strategies[name]]_vars

(* C12: start on a strategy whose running flag is set changes nothing: the  *)
(* setup hook does not run again, no loop task is created and the status    *)
(* stays Running.                                                           *)
C12_StartIdempotent ==
    [][\A name \in Strategies :
          (strategy_call'.op = "start" /\ strategy_call'.name = name
              /\ strategies[name]._is_running) =>
             /\ strategies'[name].on_start_runs = strategies[name].on_start_runs
             /\ strategies'[name].tasks = strategies[name].tasks
             /\ strategies'[name].status = RUNNING
             /\ strategies' = strategies]_vars

(* start has just been called on a strategy that was already running.      *)
C12_Witness ==
    /\ strategy_call.op = "start"
    /\ strategy_call.status = RUNNING
    /\ strategies[strategy_call.name]._is_running
    /\ strategies[strategy_call.name].on_start_runs = 1
    /\ Len(strategies[strategy_call.name].tasks) = 1

(* C13: at most one strategy has a tick body in progress at any time.       *)
C13_OneTickBodyAtATime ==
    Cardinality({name \in Strategies : TickInProgress(strategies[name])}) <= 1

----------------------------------------------------------------------------
(* Claims about the dashboard and the risk gate                             *)

(* C14: the status query and the periodic broadcast only read the risk      *)
(* gate's global P&L and halted flag and the execution ledger.              *)
C14_DashboardOnlyReads ==
    [][risk_call'.op \in {"get_status", "broadcast"} =>
          /\ risk'.global_pnl = risk.global_pnl
          /\ risk'.is_halted = risk.is_halted
          /\ backend' = backend
          /\ driver' = driver]_vars

(* C16: cancel_order reaches the backend in every state, the halted and the *)
(* velocity-saturated ones included, hands back the backend's answer and    *)
(* changes neither the halted flag nor the velocity window.                 *)
C16_CancelAlwaysForwarded ==
    [][risk_call'.op = "cancel_order" =>
          /\ risk_call'.backend_response # NoResponse
          /\ risk_call'.response = risk_call'.backend_response
          /\ risk'.is_halted = risk.is_halted
          /\ risk'.order_timestamps = risk.order_timestamps
          /\ risk' = risk]_vars

(* A cancellation has just gone through a halted gate whose velocity window *)
(* is full.                                                                 *)
C16_Witness ==
    /\ risk_call.op = "cancel_order"
    /\ risk_call.backend_response.status = "ok"
    /\ risk.is_halted
    /\ WindowCount(risk, clock) >= risk.max_orders_per_minute

----------------------------------------------------------------------------
(* Claims about price resolution                                            *)

(* The symbol has no nonzero mark and the data provider, if one is          *)
(* consulted, yields zero.                                                  *)
Unresolved(d, symbol) ==
    /\ symbol \in DOMAIN d.current_prices => d.current_prices[symbol] = R(0)
    /\ \/ d.csv_provider = EmptyDict
       \/ d.current_time = NoTime
       \/ d.csv_provider[symbol] = 0

(* C15: place_order for a symbol whose price cannot be resolved returns an  *)
(* error response and leaves cash, positions, order log and trade log       *)
(* unchanged; no trade is ever recorded with fill price 0.                  *)
C15_NoPriceNoFill ==
    [][/\ (last_call'.op = "place_order"
              /\ Unresolved(driver, last_call'.request.symbol)) =>
             /\ last_call'.response.status = "error"
             /\ driver' = driver
       /\ \A i \in 1..Len(driver'.trades) : driver'.trades[i].price # R(0)]_vars

(* An order has just been refused for want of a price although a provider   *)
(* and a clock are installed, and the ledger already holds a fill.          *)
C15_Witness ==
    /\ last_call.op = "place_order"
    /\ last_call.response.status = "error"
    /\ Unresolved(driver, last_call.request.symbol)
    /\ driver.csv_provider # EmptyDict
    /\ driver.current_time # NoTime
    /\ Len(driver.trades) > 0

----------------------------------------------------------------------------
(* Claims about the rows of a backtest run                                  *)

(* run() has handled the first row and no other.                            *)
AfterFirstRow ==
    \/ engine.pc \in {"rows", "done"} /\ engine.rows_done = 1
    \/ engine.pc = "raised"

(* C17: after the first row the clock and the index mark stand at that row  *)
(* and its close, no tick has been delivered, and the order log, the trade  *)
(* log, the positions and the daily trade counter are empty.                *)
C17_FirstRowSeedsOnly ==
    AfterFirstRow =>
        /\ driver.current_time = engine.row.date
        /\ driver.current_prices = Put(EmptyDict, IndexSymbol, R(engine.row.Close))
        /\ engine.last_tick = NoTick
        /\ driver.orders = <<>>
        /\ driver.trades = <<>>
        /\ driver.positions = EmptyDict
        /\ driver.current_cash = driver.initial_capital
        /\ engine.daily_trade_count = EmptyDict

(* The first row, closing at 2, has been handled and the next is awaited.   *)
C17_Witness ==
    /\ engine.pc = "rows"
    /\ engine.rows_done = 1
    /\ engine.row.Close = 2
    /\ driver.current_prices[IndexSymbol] = R(2)
    /\ driver.trades = <<>>

(* The k-th sub-tick the row is to produce.                                 *)
ExpectedSubTick(row, k) ==
    IF ~row.ohlc THEN row.Close
    ELSE IF k = 1 THEN row.Open
    ELSE IF k = 2 THEN row.High
    ELSE IF k = 3 THEN row.Low
    ELSE row.Close

ExpectedSubTicks(row) == IF row.ohlc THEN 4 ELSE 1

(* C18: a row after the first yields its sub-ticks in the order Open, High, *)
(* Low, Close, or its close alone when it lacks those columns: the k-th     *)
(* step sets the index mark to the k-th price and offers that price to the  *)
(* callback, the row stays current until its last sub-tick, and a new row   *)
(* is taken up only between rows.                                           *)
C18_SubTicksInOrder ==
    [][/\ engine.pc = "ticks" =>
             LET k == engine.tick
                 price == ExpectedSubTick(engine.row, k)
             IN  /\ k \in 1..ExpectedSubTicks(engine.row)
                 /\ driver'.current_prices[IndexSymbol] = R(price)
                 /\ engine'.last_tick.price = price
                 /\ engine'.last_tick.delivered =
                       (Get(engine.daily_trade_count, engine.row.date, 0)
                           < engine.max_trades_per_day)
                 /\ engine'.row = engine.row
                 /\ IF k < ExpectedSubTicks(engine.row)
                    THEN engine'.pc = "ticks" /\ engine'.tick = k + 1
                    ELSE engine'.pc = "rows"
       /\ engine'.row # engine.row => engine.pc \in {"init", "rows"}]_vars

(* The Low of a row (1, 2, 1, 2) has just been delivered as its third       *)
(* sub-tick.                                                                *)
C18_Witness ==
    /\ engine.pc = "ticks"
    /\ engine.tick = 4
    /\ engine.row.ohlc
    /\ engine.row.High = 2
    /\ engine.row.Low = 1
    /\ engine.last_tick = [price |-> 1, delivered |-> TRUE, new_trades |-> 0]
    /\ driver.current_prices[IndexSymbol] = R(1)

(* C19: a row whose chain shows a prefix other than the tracked one         *)
(* refreshes the strategy's instruments once and makes that prefix the      *)
(* tracked one; a row whose chain shows the tracked prefix, or no chain,    *)
(* refreshes nothing, and nothing is refreshed between rows.                *)
C19_RefreshOncePerChange ==
    [][IF engine'.rows_done = engine.rows_done + 1
       THEN LET prefix == engine'.chain_prefix
            IN  IF prefix # NoChain /\ prefix # engine.symbol_initials
                THEN /\ engine'.refreshes = engine.refreshes + 1
                     /\ engine'.symbol_initials = prefix
                ELSE /\ engine'.refreshes = engine.refreshes
                     /\ engine'.symbol_initials = engine.symbol_initials
       ELSE /\ engine'.refreshes = engine.refreshes
            /\ engine'.symbol_initials = engine.symbol_initials]_vars

(* Of three rows one changed the prefix to NIFTY26MAR, and the row in       *)
(* progress shows that prefix again.                                        *)
C19_Witness ==
    /\ engine.pc = "ticks"
    /\ engine.rows_done = 3
    /\ engine.refreshes = 1
    /\ engine.symbol_initials = "NIFTY26MAR"
    /\ engine.chain_prefix = "NIFTY26MAR"

----------------------------------------------------------------------------
(* Claims about CSVDataProvider                                             *)

DatesOf(table) == {r.Date : r \in table.rows}

(* C20: get_option_chain for a date with no rows in either table returns    *)
(* the snapshot of the nearest earlier date that has rows in any table, and *)
(* none only when no such date exists.                                      *)
C20_FallsBackToNearestEarlierDate ==
    LET date == provider.timestamp
        dates == DatesOf(provider.ce_data) \cup DatesOf(provider.pe_data)
        earlier == {d \in dates : d < date}
    IN  (/\ date # NoTime
         /\ provider.ce_data.loaded
         /\ provider.pe_data.loaded
         /\ date \notin dates) =>
            IF earlier = {}
            THEN provider.chain = NoSnapshot
            ELSE provider.chain =
                    NearMonth({r \in provider.ce_data.rows : r.Date = SetMax(earlier)},
                              {r \in provider.pe_data.rows : r.Date = SetMax(earlier)},
                              date)

----------------------------------------------------------------------------
(* Claims about the run as a whole                                          *)

(* C21: run() on an empty row stream delivers no tick, leaves the driver's  *)
(* cash, positions, marks, clock, order log and trade log as they were, and *)
(* neither computes nor saves results.                                      *)
C21_EmptyStreamAborts ==
    [][engine'.pc = "aborted" =>
          /\ driver' = driver
          /\ engine' = [engine EXCEPT !.pc = "aborted"]
          /\ engine'.last_tick = NoTick
          /\ ~engine'.results_saved
          /\ driver'.orders = <<>>
          /\ driver'.trades = <<>>
          /\ driver'.positions = EmptyDict
          /\ driver'.current_prices = EmptyDict
          /\ driver'.current_time = NoTime
          /\ driver'.current_cash = driver'.initial_capital]_vars

(* run() has returned on an empty stream after the CSV data was loaded.     *)
C21_Witness ==
    /\ engine.pc = "aborted"
    /\ engine.csv_provider
    /\ driver.csv_provider # EmptyDict
    /\ driver.trades = <<>>

----------------------------------------------------------------------------
(* Claims about the driver's logs                                           *)

(* The number n of the order id "BTn".                                      *)
IdNumber(order_id) == order_id[2]

(* C22: the number in the id returned by an accepted place_order is larger  *)
(* than the number of every id handed out before, whatever accepted and     *)
(* rejected orders came before it, so the ids increase strictly in call     *)
(* order and never repeat.                                                  *)
C22_OrderIdsIncrease ==
    [][(last_call'.op = "place_order" /\ last_call'.response.status = "ok") =>
          /\ \A i \in 1..Len(driver.orders) :
                /\ driver'.orders[i] = driver.orders[i]
                /\ IdNumber(driver.orders[i].order_id)
                      < IdNumber(last_call'.response.order_id)
          /\ Len(driver'.orders) = Len(driver.orders) + 1
          /\ driver'.orders[Len(driver'.orders)].order_id
                = last_call'.response.order_id
          /\ last_call'.response.order_id[1] = "BT"]_vars

(* A second order is accepted, with the id after the first one's.           *)
C22_Witness ==
    /\ Len(driver.orders) = 2
    /\ last_call.op = "place_order"
    /\ last_call.response.status = "ok"
    /\ last_call.response.order_id = <<"BT", 2>>
    /\ driver.current_cash # driver.initial_capital

(* C23: cancel_order and modify_order leave cash, positions, marks, order   *)
(* log and trade log as they were, for an id of the order log and for an id *)
(* the driver never handed out; cancel_order answers ok and modify_order    *)
(* answers error.                                                           *)
C23_CancelModifyAreNoOps ==
    [][(last_call'.op \in {"cancel_order", "modify_order"}) =>
          /\ driver'.current_cash = driver.current_cash
          /\ driver'.positions = driver.positions
          /\ driver'.current_prices = driver.current_prices
          /\ driver'.orders = driver.orders
          /\ driver'.trades = driver.trades
          /\ last_call'.op = "cancel_order" => last_call'.response.status = "ok"
          /\ last_call'.op = "modify_order" => last_call'.response.status = "error"]_vars

(* The one filled order is cancelled while its position is open.            *)
C23_Witness ==
    /\ last_call.op = "cancel_order"
    /\ last_call.response.order_id = <<"BT", 1>>
    /\ Len(driver.orders) = 1
    /\ driver.orders[1].order_id = <<"BT", 1>>
    /\ driver.positions # EmptyDict

----------------------------------------------------------------------------
(* Claims about the engine's trade counters                                 *)

(* C24: after each sub-tick the counter of the tick's date is the number of *)
(* trades the callbacks appended on sub-ticks of that date, so it grows by  *)
(* the number of trades of the tick; the counters of the other dates are    *)
(* left alone and no counter ever goes down.                                *)
C24_CounterIsTradeLogDelta ==
    [][\A date \in 1..(MaxRows + 1) :
          LET before == Get(engine.daily_trade_count, date, 0)
              after == Get(engine'.daily_trade_count, date, 0)
          IN  /\ after >= before
              /\ after = TradesOn(date)'
              /\ after - before = TradesOn(date)' - TradesOn(date)
              /\ (engine.pc = "ticks" /\ date # engine.row.date) => after = before
              /\ engine.pc # "ticks" => after = before]_vars

(* A tick whose callback placed two orders took the date's counter from one *)
(* to three.                                                                *)
C24_Witness ==
    /\ engine.last_tick # NoTick
    /\ engine.last_tick.new_trades = 2
    /\ Get(engine.daily_trade_count, engine.row.date, 0) = 3
    /\ TradesOn(engine.row.date) = 3

----------------------------------------------------------------------------
(* Claims about the loop tasks of one strategy                              *)

(* The loop tasks of a strategy that are inside on_tick, or asleep between  *)
(* two ticks with the running flag set, so that they call on_tick again     *)
(* when they wake.                                                          *)
LoopsTicking(st) ==
    {task \in 1..Len(st.tasks) :
        \/ st.tasks[task] = "tick"
        \/ st.tasks[task] = "sleep" /\ st._is_running}

(* C26: at most one loop task of a strategy is executing tick callbacks at  *)
(* any time, whatever the order of the start and stop calls.                *)
C26_OneLoopPerStrategy ==
    \A name \in Strategies : Cardinality(LoopsTicking(strategies[name])) <= 1

(* C25: when a stop call on a running strategy returns, the loop task it    *)
(* waited for has ended, the teardown hook has run once for that stop and   *)
(* the status is Stopped, also when the tick in flight fails and when start *)
(* or stop are called meanwhile.                                            *)
C25_StopReturnsStopped ==
    [][\A name \in Strategies :
          strategies'[name].on_stop_runs > strategies[name].on_stop_runs =>
             /\ strategies'[name].on_stop_runs = strategies[name].on_stop_runs + 1
             /\ strategy_call'.op \in {"stop", "on_stop"}
             /\ strategy_call'.op = "on_stop" =>
                   strategies'[name].tasks[strategy_call'.task] = "done"
             /\ strategies'[name].status = STOPPED]_vars

----------------------------------------------------------------------------
(* Claims about the average price of a position                             *)

(* The step is an accepted place_order.                                     *)
AcceptedStep == last_call'.op = "place_order" /\ last_call'.response.status = "ok"

(* The fill of the accepted order: the entry the step appended.             *)
LastFill == driver'.trades[Len(driver'.trades)]

(* Quantity and value of a fill, positive for BUY and negative for SELL.    *)
SignedQuantity(t) == IF t.transaction_type = "BUY" THEN t.quantity ELSE -t.quantity
SignedValue(t) == RMul(R(SignedQuantity(t)), t.price)

(* C27: when an accepted order flips the sign of a position, the average    *)
(* price after it is (old average x old quantity + signed fill value) /     *)
(* new quantity.                                                            *)
C27_FlipBlendsAverage ==
    [][AcceptedStep =>
          LET s == last_call'.request.symbol
          IN  (/\ s \in DOMAIN driver.positions
               /\ s \in DOMAIN driver'.positions
               /\ driver.positions[s].quantity_total
                     * driver'.positions[s].quantity_total < 0) =>
                 driver'.positions[s].average_price =
                     RDiv(RAdd(RMul(driver.positions[s].average_price,
                                    R(driver.positions[s].quantity_total)),
                               SignedValue(LastFill)),
                          R(driver'.positions[s].quantity_total))]_vars

(* C28: an accepted fill that reduces a position without closing or         *)
(* flipping it, a SELL against a larger long or a BUY against a larger      *)
(* short, leaves the average price of the position as it was.               *)
C28_ReducingFillKeepsAverage ==
    [][AcceptedStep =>
          LET s == last_call'.request.symbol
          IN  (/\ s \in DOMAIN driver.positions
               /\ s \in DOMAIN driver'.positions
               /\ driver.positions[s].quantity_total
                     * driver'.positions[s].quantity_total > 0
               /\ driver.positions[s].quantity_total
                     * SignedQuantity(LastFill) < 0) =>
                 driver'.positions[s].average_price
                     = driver.positions[s].average_price]_vars

----------------------------------------------------------------------------
(* Claims about the cash and the two logs                                   *)

(* Sum of the signed values of the entries of a trade log.                  *)
RECURSIVE NetBought(_)
NetBought(trades) ==
    IF trades = <<>> THEN R(0)
    ELSE RAdd(SignedValue(Head(trades)), NetBought(Tail(trades)))

(* C29: current_cash is the initial capital minus quantity x price summed   *)
(* over the BUY entries of the trade log plus quantity x price summed over  *)
(* its SELL entries, and the price recorded in an entry is the price the    *)
(* quote resolved for the symbol when the order was placed.                 *)
C29_CashIsCapitalMinusNetBought ==
    [][/\ driver.current_cash = RSub(driver.initial_capital, NetBought(driver.trades))
       /\ driver'.current_cash = RSub(driver'.initial_capital, NetBought(driver'.trades))
       /\ AcceptedStep =>
             /\ LastFill.price = GetQuote(driver, last_call'.request.symbol).last_price
             /\ LastFill.symbol = last_call'.request.symbol]_vars

(* Cash after a BUY and a SELL at different prices, back above the capital. *)
C29_Witness ==
    /\ Len(driver.trades) = 3
    /\ \E i, j \in 1..3 :
          /\ driver.trades[i].transaction_type = "BUY"
          /\ driver.trades[j].transaction_type = "SELL"
          /\ driver.trades[i].price # driver.trades[j].price
    /\ RLt(driver.initial_capital, driver.current_cash)
    /\ driver.current_prices # EmptyDict

(* seq is seq2 with one entry appended.                                     *)
AppendsOne(seq, seq2) ==
    /\ Len(seq2) = Len(seq) + 1
    /\ SubSeq(seq2, 1, Len(seq)) = seq

(* C30: the order log and the trade log have the same length in every       *)
(* state; an accepted place_order appends one entry to each, with the       *)
(* requested symbol, side and full quantity and with status COMPLETE; a     *)
(* rejected place_order and every other operation leave both logs exactly   *)
(* as they were.                                                            *)
C30_LogsAppendOnly ==
    [][/\ Len(driver.orders) = Len(driver.trades)
       /\ Len(driver'.orders) = Len(driver'.trades)
       /\ IF AcceptedStep
          THEN /\ AppendsOne(driver.orders, driver'.orders)
               /\ AppendsOne(driver.trades, driver'.trades)
               /\ LastFill = driver'.orders[Len(driver'.orders)]
               /\ LastFill.symbol = last_call'.request.symbol
               /\ LastFill.transaction_type = last_call'.request.transaction_type
               /\ LastFill.quantity = last_call'.request.quantity
               /\ LastFill.status = "COMPLETE"
          ELSE /\ driver'.orders = driver.orders
               /\ driver'.trades = driver.trades]_vars

(* An order is rejected after two were accepted, and both logs still hold  *)
(* the two entries.                                                         *)
C30_Witness ==
    /\ last_call.op = "place_order"
    /\ last_call.response.status = "error"
    /\ Len(driver.orders) = 2
    /\ Len(driver.trades) = 2
    /\ driver.csv_provider # EmptyDict

----------------------------------------------------------------------------
(* Claims about marks and unrealized P&L                                    *)

(* (mark - average_price) x quantity_total                                  *)
MarkedPnl(pos, mark) == RMul(RSub(mark, pos.average_price), R(pos.quantity_total))

(* C31: set_price(symbol, price) sets the symbol's mark to price and the    *)
(* pnl of a position on that symbol to (price - average_price) x            *)
(* quantity_total, which for a short is (average_price - price) x           *)
(* |quantity|; cash, the quantity and average price of every position, the  *)
(* pnl of the positions on other symbols, the other marks and both logs are *)
(* left as they were.                                                       *)
C31_SetPriceMarksAndReprices ==
    [][last_call'.op = "set_price" =>
          LET symbol == last_call'.request.symbol
              price == R(last_call'.price)
          IN  /\ driver'.current_prices[symbol] = price
              /\ \A s \in DOMAIN driver.current_prices \ {symbol} :
                    driver'.current_prices[s] = driver.current_prices[s]
              /\ DOMAIN driver'.positions = DOMAIN driver.positions
              /\ \A s \in DOMAIN driver.positions :
                    LET pos == driver.positions[s]
                        after == driver'.positions[s]
                    IN  /\ after.quantity_total = pos.quantity_total
                        /\ after.average_price = pos.average_price
                        /\ s # symbol => after = pos
                        /\ s = symbol => after.pnl = MarkedPnl(pos, price)
                        /\ (s = symbol /\ pos.quantity_total < 0) =>
                              after.pnl = RMul(RSub(pos.average_price, price),
                                               R(-pos.quantity_total))
              /\ driver'.current_cash = driver.current_cash
              /\ driver'.orders = driver.orders
              /\ driver'.trades = driver.trades]_vars

(* A short was just marked above its average while a long on the other      *)
(* symbol kept its pnl.                                                     *)
C31_Witness ==
    /\ last_call.op = "set_price"
    /\ last_call.request.symbol \in DOMAIN driver.positions
    /\ driver.positions[last_call.request.symbol].quantity_total < 0
    /\ RLt(driver.positions[last_call.request.symbol].pnl, R(0))
    /\ \E s \in DOMAIN driver.positions :
          s # last_call.request.symbol /\ driver.positions[s].quantity_total > 0

(* C32: in every reachable state, each stored position whose symbol has a   *)
(* mark has pnl equal to (mark - average_price) x quantity_total for its    *)
(* current quantity and average price.                                      *)
C32_PnlFollowsPosition ==
    \A s \in DOMAIN driver.positions :
        s \in DOMAIN driver.current_prices =>
            driver.positions[s].pnl = MarkedPnl(driver.positions[s], driver.current_prices[s])

----------------------------------------------------------------------------
(* Claims about what place_order admits                                     *)

(* C33: a BUY request whose price resolves to a nonzero value is accepted   *)
(* and filled in full whatever the cash and the used margin are: the full   *)
(* quantity is appended to both logs, added to the position and paid for.   *)
C33_BuyNeverRefused ==
    [][(/\ last_call'.op = "place_order"
        /\ last_call'.request.transaction_type = "BUY"
        /\ GetQuote(driver, last_call'.request.symbol).last_price # R(0)) =>
          LET request == last_call'.request
              price == GetQuote(driver, request.symbol).last_price
              held(d) == IF request.symbol \in DOMAIN d.positions
                         THEN d.positions[request.symbol].quantity_total ELSE 0
          IN  /\ last_call'.response.status = "ok"
              /\ AppendsOne(driver.trades, driver'.trades)
              /\ AppendsOne(driver.orders, driver'.orders)
              /\ LastFill.quantity = request.quantity
              /\ LastFill.transaction_type = "BUY"
              /\ held(driver') = held(driver) + request.quantity
              /\ driver'.current_cash =
                    RSub(driver.current_cash, RMul(R(request.quantity), price))]_vars

(* A BUY was filled with less cash than its value, and with less margin     *)
(* available than a SELL of the same size needs.                            *)
C33_Witness ==
    /\ last_call.op = "place_order"
    /\ last_call.request.transaction_type = "BUY"
    /\ last_call.response.status = "ok"
    /\ RLt(driver.current_cash, R(0))
    /\ RLt(AvailableMargin(driver), RequiredMargin(last_call.request))

----------------------------------------------------------------------------
(* Claims about the velocity window                                         *)

(* The timestamps of the window that are less than 60 seconds old at now.   *)
StillRecent(timestamps, now) ==
    SelectSeq(timestamps, LAMBDA t : now - t < VelocityWindow)

HaltRejected == risk_call'.response = RiskRejection("Risk System Halted")
VelocityRejected == risk_call'.response = RiskRejection("Velocity Limit Exceeded")
Admitted == risk_call'.op = "place_order" /\ risk_call'.backend_response # NoResponse

(* C34: every timestamp of the velocity window is the time of an order the  *)
(* gate admitted, and after a call that ran the velocity check all of them  *)
(* are less than 60 seconds old; a call rejected because of the halt leaves *)
(* the window as it was, a call rejected because of velocity adds no        *)
(* timestamp, an admitted call adds exactly one, its own time, and no other *)
(* operation touches the window.                                            *)
C34_WindowHoldsAdmittedOrders ==
    [][LET before == risk.order_timestamps
           after == risk'.order_timestamps
       IN  /\ \A i \in 1..Len(after) :
                 \E j \in 1..Len(backend') : backend'[j].at = after[i]
           /\ IF risk_call'.op # "place_order" THEN after = before
              ELSE IF HaltRejected THEN after = before
              ELSE /\ \A i \in 1..Len(after) : clock - after[i] < VelocityWindow
                   /\ VelocityRejected => after = StillRecent(before, clock)
                   /\ Admitted =>
                         /\ Len(after) = Len(StillRecent(before, clock)) + 1
                         /\ SubSeq(after, 1, Len(after) - 1) = StillRecent(before, clock)
                         /\ after[Len(after)] = clock
                   /\ VelocityRejected \/ Admitted]_vars

(* The third admitted order found the two earlier timestamps too old and    *)
(* is alone in the window.                                                  *)
C34_Witness ==
    /\ risk_call.op = "place_order"
    /\ risk_call.backend_response # NoResponse
    /\ Len(backend) = 3
    /\ risk.order_timestamps = <<clock>>

(* C35: an order the gate admitted takes one slot of the velocity window    *)
(* whether the backend fills it or answers an error: the window counts one  *)
(* more recent timestamp after the call in both cases, and the caller gets  *)
(* the backend's answer.                                                    *)
C35_BackendErrorKeepsSlot ==
    [][Admitted =>
          /\ WindowCount(risk', clock) = WindowCount(risk, clock) + 1
          /\ WindowCount(risk', clock) = Len(risk'.order_timestamps)
          /\ risk_call'.response = risk_call'.backend_response
          /\ backend' = Append(backend, [request |-> risk_call'.request, at |-> clock])]_vars

(* The backend refused an admitted order and the window is full through it. *)
C35_Witness ==
    /\ risk_call.op = "place_order"
    /\ risk_call.backend_response = ErrorResponse("Insufficient Margin")
    /\ risk_call.response = risk_call.backend_response
    /\ Len(risk.order_timestamps) = MaxOrdersPerMinute
    /\ ~Admits(risk, clock)

----------------------------------------------------------------------------
(* Claims about stop after a failure                                        *)

(* C36: a strategy in status Error has its running flag clear, and stop     *)
(* called on it returns at once: the teardown hook does not run, no wait is *)
(* started, and the status stays Error, so the strategy is left exactly as  *)
(* the failure left it.                                                     *)
C36_StopAfterErrorDoesNothing ==
    [][\A name \in Strategies :
          /\ strategies[name].status = ERROR => ~strategies[name]._is_running
          /\ (strategy_call'.op = "stop" /\ strategy_call'.name = name
                 /\ strategies[name].status = ERROR) =>
                /\ strategies'[name].on_stop_runs = strategies[name].on_stop_runs
                /\ strategies'[name].stops = strategies[name].stops
                /\ strategies'[name].status = ERROR
                /\ strategies' = strategies]_vars

(* stop has just been called on a strategy whose only loop ended in Error:  *)
(* the setup hook ran once and the teardown hook never did.                 *)
C36_Witness ==
    /\ strategy_call.op = "stop"
    /\ strategy_call.status = ERROR
    /\ LET st == strategies[strategy_call.name]
       IN  /\ st.status = ERROR
           /\ st.tasks = <<"done">>
           /\ st.on_start_runs = 1
           /\ st.on_stop_runs = 0

----------------------------------------------------------------------------
(* Claims about the near-month snapshot and the option price                *)

(* The date get_option_chain resolved for the last call: the date asked for *)
(* when one of the tables has a row on it, else the date it fell back to.   *)
ResolvedDate ==
    LET date == provider.timestamp
        dates == DatesOf(provider.ce_data) \cup DatesOf(provider.pe_data)
    IN  IF date \in dates THEN date
        ELSE SetMax({d \in DatesOf(provider.ce_data) : d <= date})

(* C37: every row of the snapshot, in the CE and in the PE table, has the   *)
(* same expiry, and that expiry is the smallest one among all the CE and PE *)
(* rows of the resolved date.                                               *)
C37_SnapshotIsNearestExpiry ==
    provider.chain.found =>
        LET rows == {r \in provider.ce_data.rows \cup provider.pe_data.rows :
                        r.Date = ResolvedDate}
        IN  /\ \A r \in provider.chain.CE \cup provider.chain.PE :
                  r.Expiry = provider.chain.expiry
            /\ provider.chain.expiry = SetMin({r.Expiry : r \in rows})

(* The number in a cell, if it holds one that is not zero.                  *)
Usable(cell) == cell.kind \in {"num", "str"} /\ cell.value # 0

(* C38: get_option_price returns the price of the row of the requested      *)
(* (date, strike), else of the nearest earlier date that has a row for the  *)
(* strike; the price is the last-traded price unless that is blank,         *)
(* non-numeric or zero, and Close then; it returns 0 only when there is no  *)
(* such row or the symbol cannot be parsed.                                 *)
C38_PriceOfNearestRow ==
    pricing.timestamp # NoTime =>
        LET match == ParseSymbol(pricing.symbol)
            data == IF match.type_str = "CE" THEN pricing.ce_data ELSE pricing.pe_data
            dates == {d \in 1..MaxPriceDate :
                         /\ d <= pricing.timestamp
                         /\ data.rows[d].present
                         /\ data.rows[d].Strike = match.strike}
        IN  IF ~match.matched \/ ~data.loaded \/ dates = {}
            THEN pricing.price = Price(0)
            ELSE LET row == data.rows[SetMax(dates)]
                 IN  /\ pricing.price =
                           IF Usable(row.LTP) THEN Price(row.LTP.value)
                           ELSE Price(row.Close.value)
                     /\ (Usable(row.LTP) \/ Usable(row.Close)) =>
                           pricing.price # Price(0)

====
